---- MODULE Spec2Model ----
(***************************************************************************)
(* Model of Datto_backup_check.py: a sequential script that probes the     *)
(* Datto API, lists all devices page by page, evaluates every device and   *)
(* its assets against fixed thresholds, prints a report and optionally     *)
(* mails it.                                                               *)
(*                                                                         *)
(* Conventions.  Times are whole seconds since the epoch.  A JSON object   *)
(* is a record, a JSON array a sequence, a nullable JSON number a sequence *)
(* of length 0 (null) or 1.  A Python str that the code inspects           *)
(* character by character (a device name, a unit name, the rendered        *)
(* elapsed time) is a sequence: of code points for names, of one-character *)
(* strings for rendered text.  A report line is a record                   *)
(* [kind, name, n, elapsed, msg] holding the fields the code formats into  *)
(* the line.                                                               *)
(***************************************************************************)
EXTENDS Integers, Sequences, FiniteSets, TLC

VARIABLES
    pc,            \* position of the script
    argc,          \* len(sys.argv)
    SEND_EMAIL,    \* the configuration flag of line 20
    clock,         \* the wall clock read by datetime.now
    net,           \* every request sent so far
    r,             \* __init__ and getDevices: the local r, the last response
    sessionOpen,   \* the requests.Session is open
    stdout,        \* lines printed
    exc,           \* the uncaught exception that ended the run, "" if none
    exitStatus,    \* process exit status, -1 while running
    acc,           \* getDevices: the local list 'devices'
    totalPages,    \* getDevices: r['pagination']['totalPages'] of page 1
    page,          \* getDevices: next page to request
    devices,       \* the sorted device list returned by getDevices
    MSG_BODY,      \* the flat report buffer
    results_data,  \* results_data['devices'], an insertion-ordered dict
    i,             \* main loop: index of the current device
    errors,        \* main loop: the current device's finding list
    now,           \* main loop: the last sampled 'now'
    assetDetails,  \* main loop: the response of getAssetDetails
    j,             \* agent loop: index of the current agent
    emails,        \* bodies sent by email_report
    arg,           \* input of a function applied on its own
    ret            \* its result

vars == << pc, argc, SEND_EMAIL, clock, net, r, sessionOpen, stdout, exc,
           exitStatus, acc, totalPages, page, devices, MSG_BODY,
           results_data, i, errors, now, assetDetails, j, emails, arg, ret >>

(***************************************************************************)
(* Thresholds, lines 23-27.                                                *)
(***************************************************************************)
CHECKIN_LIMIT == 60 * 20
STORAGE_PCT_THRESHOLD == 95
LAST_BACKUP_THRESHOLD == 60 * 60 * 12
LAST_OFFSITE_THRESHOLD == 60 * 60 * 72
LAST_SCREENSHOT_THRESHOLD == 60 * 60 * 48

(***************************************************************************)
(* Bounds of the model.                                                    *)
(***************************************************************************)
MaxPages == 2      \* the server reports at most this many pages
MaxDevices == 3    \* devices the portal holds, over all pages
MaxItems == 2      \* getDevices on its own: items per page
MaxAgents == 1     \* assets per device
MaxElapsed == 1    \* seconds the clock may advance during a run
MaxBackups == 2    \* backup history entries per asset
MaxUnits == 2      \* display_time inputs: each unit's count is 0..MaxUnits
MaxStorage == 24   \* storage sizes 0..MaxStorage

\* The instant the run starts; late enough that every timestamp is positive.
StartTime == 4 * LAST_OFFSITE_THRESHOLD

Range(s) == { s[k] : k \in DOMAIN s }

SeqsUpTo(S, n) == UNION { [1..k -> S] : k \in 0..n }

RECURSIVE Concat(_)
Concat(ss) == IF ss = << >> THEN << >> ELSE Head(ss) \o Concat(Tail(ss))

(***************************************************************************)
(* Report lines.                                                           *)
(***************************************************************************)
Line(kind, name, n, elapsed, msg) ==
    [kind |-> kind, name |-> name, n |-> n, elapsed |-> elapsed, msg |-> msg]

(***************************************************************************)
(* display_time, lines 88-109.                                             *)
(***************************************************************************)
intervals ==
    << [name |-> <<"w","e","e","k","s">>,         count |-> 604800],
       [name |-> <<"d","a","y","s">>,             count |-> 86400],
       [name |-> <<"h","o","u","r","s">>,         count |-> 3600],
       [name |-> <<"m","i","n","u","t","e","s">>, count |-> 60],
       [name |-> <<"s","e","c","o","n","d","s">>, count |-> 1] >>

\* str.rstrip(chars) for a one-character argument
RECURSIVE rstrip(_, _)
rstrip(s, ch) ==
    IF s # << >> /\ s[Len(s)] = ch THEN rstrip(SubSeq(s, 1, Len(s) - 1), ch)
    ELSE s

Digit == <<"0","1","2","3","4","5","6","7","8","9">>

\* str(n) of a non-negative integer
RECURSIVE str(_)
str(n) == IF n < 10 THEN << Digit[n + 1] >>
          ELSE str(n \div 10) \o << Digit[(n % 10) + 1] >>

\* "{} {}".format(value, name)
format_unit(value, name) == str(value) \o <<" ">> \o name

\* sep.join(parts)
RECURSIVE join(_, _)
join(sep, parts) ==
    IF parts = << >> THEN << >>
    ELSE IF Len(parts) = 1 THEN parts[1]
    ELSE parts[1] \o sep \o join(sep, Tail(parts))

\* result[:n]
Slice(s, n) == SubSeq(s, 1, IF Len(s) < n THEN Len(s) ELSE n)

\* One loop iteration, lines 103-108: the new (seconds, result).
display_time_step(k, seconds, result) ==
    LET name  == intervals[k].name
        count == intervals[k].count
        value == seconds \div count
    IN  IF value # 0
        THEN [seconds |-> seconds - value * count,
              result  |-> Append(result,
                            format_unit(value,
                              IF value = 1 THEN rstrip(name, "s") ELSE name))]
        ELSE [seconds |-> seconds, result |-> result]

RECURSIVE display_time_loop(_, _, _)
display_time_loop(k, seconds, result) ==
    IF k > Len(intervals) THEN result
    ELSE LET s == display_time_step(k, seconds, result)
         IN  display_time_loop(k + 1, s.seconds, s.result)

display_time_g(seconds, granularity) ==
    join(<<",", " ">>, Slice(display_time_loop(1, seconds, << >>), granularity))

\* Seeded fault: three units are kept instead of two
display_time_three(seconds) == display_time_g(seconds, 3)

\* display_time(seconds) with the default granularity
display_time(seconds) == display_time_g(seconds, 2)

(***************************************************************************)
(* Python values.                                                          *)
(***************************************************************************)
None == << >>
Some(v) == << v >>

\* bool(x) of a nullable number: None and 0 are falsy
truthy(x) == x # None /\ x[1] # 0

\* An insertion-ordered dict is a sequence of [key, value]; d[k] = v keeps
\* the position of a key already present.
DictHas(d, k) == \E n \in DOMAIN d : d[n].key = k
DictGet(d, k) == d[CHOOSE n \in DOMAIN d : d[n].key = k].value
DictSet(d, k, v) ==
    IF DictHas(d, k)
    THEN [n \in DOMAIN d |-> IF d[n].key = k THEN [key |-> k, value |-> v]
                             ELSE d[n]]
    ELSE Append(d, [key |-> k, value |-> v])

(***************************************************************************)
(* sorted(devices, key = lambda i: i['name'].upper()), line 68.            *)
(***************************************************************************)
\* str.upper() on ASCII code points
upper(name) ==
    [k \in DOMAIN name |->
        IF name[k] \in 97..122 THEN name[k] - 32 ELSE name[k]]

\* a < b for two strings, by code point
RECURSIVE StrLess(_, _)
StrLess(a, b) ==
    IF b = << >> THEN FALSE
    ELSE IF a = << >> THEN TRUE
    ELSE IF a[1] # b[1] THEN a[1] < b[1]
    ELSE StrLess(Tail(a), Tail(b))

\* Seeded fault: the sort key is the name as it is, case included
SortKey_raw(device) == device.name

SortKey(device) == upper(device.name)

\* Insert x behind every element whose key is not greater: a stable sort.
RECURSIVE InsertSorted(_, _)
InsertSorted(s, x) ==
    IF s = << >> THEN << x >>
    ELSE IF StrLess(SortKey(x), SortKey(s[1])) THEN << x >> \o s
    ELSE << s[1] >> \o InsertSorted(Tail(s), x)

RECURSIVE sorted(_)
sorted(s) ==
    IF s = << >> THEN << >>
    ELSE InsertSorted(sorted(SubSeq(s, 1, Len(s) - 1)), s[Len(s)])

(***************************************************************************)
(* Device checks, lines 149-181.                                           *)
(***************************************************************************)
\* strptime(t, "%Y-%m-%dT%H:%M:%S%z"): the instant of a local time with a
\* UTC offset
strptime(t) == t.wall - t.utcoffset

\* lines 156-163
TicketCheck(device) ==
    IF device.activeTickets # 0
    THEN << Line("tickets", << >>, device.activeTickets, << >>,
                 IF device.activeTickets < 2 THEN "ticket" ELSE "tickets") >>
    ELSE << >>

\* Seeded fault: strictly more than the limit
Offline_after(device, nowv) == nowv - strptime(device.lastSeenDate) > CHECKIN_LIMIT

\* line 165
Offline(device, nowv) == nowv - strptime(device.lastSeenDate) >= CHECKIN_LIMIT

\* line 166
CheckinLine(device, nowv) ==
    Line("checkin", << >>, 0,
         display_time(nowv - strptime(device.lastSeenDate)), "")

\* Quotients (2n+1)/200 whose nearest double lies above them, or is the
\* quotient and n is odd: "{0:.2f}" renders these as (n+1)/100, the other
\* ties as n/100.
TiesRoundedUp ==
    { 0, 2, 3, 5, 6, 8, 9, 11, 13, 16, 19, 22, 25, 26, 27, 31, 32, 33, 37,
      38, 39, 40, 44, 45, 46, 50, 51, 52, 53, 54, 55, 63, 64, 65, 66, 67,
      68, 75, 76, 77, 78, 79, 80, 87, 88, 89, 90, 91, 92, 93 }

\* "{0:.2f}".format(a / b), in hundredths
format_2f(a, b) ==
    LET q   == (100 * a) \div b
        rem == (100 * a) % b
    IN  IF 2 * rem < b THEN q
        ELSE IF 2 * rem > b THEN q + 1
        ELSE IF q \in TiesRoundedUp THEN q + 1 ELSE q

\* line 175: float("{0:.2f}".format(storage_used / total_space)) * 100.
\* The product is the whole number of hundredths, exactly so from 59 up.
available_pct(device) ==
    LET storage_available == device.localStorageAvailable.size
        storage_used      == device.localStorageUsed.size
        total_space       == storage_available + storage_used
    IN  format_2f(storage_used, total_space)

\* line 175 raises ZeroDivisionError
StorageRaises(device) ==
    device.localStorageAvailable.size + device.localStorageUsed.size = 0

\* lines 177-181
StorageCheck(device) ==
    IF available_pct(device) > STORAGE_PCT_THRESHOLD
    THEN << Line("storage", << >>, available_pct(device), << >>, "") >>
    ELSE << >>

(***************************************************************************)
(* Agent checks, lines 190-242.                                            *)
(***************************************************************************)
\* lines 191-192
Skipped(agent) == agent.isArchived \/ agent.isPaused

\* Seeded fault: the threshold itself already counts as too old
BackupCheck_ge(agent, nowv) ==
    LET timeDiff == nowv - agent.lastSnapshot
    IN  IF timeDiff >= LAST_BACKUP_THRESHOLD
        THEN IF agent.backups = << >>
             THEN << Line("no_backups", agent.name, 0, << >>, "") >>
             ELSE IF agent.backups[1].backup.status # "success"
             THEN << Line("backup_failed", agent.name, 0,
                          display_time(timeDiff),
                          agent.backups[1].backup.errorMessage) >>
             ELSE << >>
        ELSE << >>

\* lines 201-215
BackupCheck(agent, nowv) ==
    LET timeDiff == nowv - agent.lastSnapshot
    IN  IF timeDiff > LAST_BACKUP_THRESHOLD
        THEN IF agent.backups = << >>        \* backups[0]: IndexError
             THEN << Line("no_backups", agent.name, 0, << >>, "") >>
             ELSE IF agent.backups[1].backup.status # "success"
             THEN << Line("backup_failed", agent.name, 0,
                          display_time(timeDiff),
                          agent.backups[1].backup.errorMessage) >>
             ELSE << >>
        ELSE << >>

\* Seeded fault: the threshold itself already counts as too old
OffsiteCheck_ge(agent, nowv) ==
    IF ~ truthy(agent.latestOffsite)
    THEN << Line("no_offsite", agent.name, 0, << >>, "") >>
    ELSE LET timeDiff == nowv - agent.latestOffsite[1]
         IN  IF timeDiff >= LAST_OFFSITE_THRESHOLD
             THEN << Line("offsite_old", agent.name, 0,
                          display_time(timeDiff), "") >>
             ELSE << >>

\* lines 218-228
OffsiteCheck(agent, nowv) ==
    IF ~ truthy(agent.latestOffsite)
    THEN << Line("no_offsite", agent.name, 0, << >>, "") >>
    ELSE LET timeDiff == nowv - agent.latestOffsite[1]
         IN  IF timeDiff > LAST_OFFSITE_THRESHOLD
             THEN << Line("offsite_old", agent.name, 0,
                          display_time(timeDiff), "") >>
             ELSE << >>

\* lines 230-237
ScreenshotAgeCheck(agent, nowv) ==
    IF agent.type = "agent" /\ truthy(agent.lastScreenshotAttempt)
    THEN LET timeDiff == nowv - agent.lastScreenshotAttempt[1]
         IN  IF timeDiff > LAST_SCREENSHOT_THRESHOLD
             THEN << Line("screenshot_old", agent.name, 0,
                          display_time(timeDiff), "") >>
             ELSE << >>
    ELSE << >>

\* lines 240-242
ScreenshotStatusCheck(agent) ==
    IF agent.type = "agent" /\ agent.lastScreenshotAttemptStatus = "false"
    THEN << Line("screenshot_failed", agent.name, 0, << >>, "") >>
    ELSE << >>

\* The findings of one agent that is not skipped, lines 196-242.
AgentChecks(agent, nowv) ==
    BackupCheck(agent, nowv) \o OffsiteCheck(agent, nowv)
        \o ScreenshotAgeCheck(agent, nowv) \o ScreenshotStatusCheck(agent)

(***************************************************************************)
(* The server: what the API may answer.                                    *)
(***************************************************************************)
Storage(used, available) ==
    [localStorageUsed |-> [size |-> used],
     localStorageAvailable |-> [size |-> available]]

Device(name, hidden, lastSeen, tickets, used, available, serial) ==
    [name |-> name, hidden |-> hidden, lastSeenDate |-> lastSeen,
     activeTickets |-> tickets, serialNumber |-> serial,
     localStorageUsed |-> [size |-> used],
     localStorageAvailable |-> [size |-> available]]

\* Devices the portal may hold.  Names are "a", "B", "b": "a" sorts before
\* "B" by upper-cased name and behind it by code point, "B" and "b" tie.
\* Two visible devices are named "b", and two devices "a".
DeviceCatalog ==
    { \* hidden, and every rule would fire
      Device(<<97>>, TRUE, [wall |-> StartTime - 7200, utcoffset |-> 0],
             1, 99, 1, "S1"),
      \* visible, no finding unless the clock advances to the check-in limit
      Device(<<98>>, FALSE,
             [wall |-> StartTime - CHECKIN_LIMIT + 1, utcoffset |-> 0],
             0, 94, 6, "S2"),
      \* visible, offline, one ticket; last seen in a UTC+1 local time
      Device(<<98>>, FALSE,
             [wall |-> StartTime - CHECKIN_LIMIT + 3600, utcoffset |-> 3600],
             1, 96, 4, "S3"),
      \* visible, online, two tickets, storage at 96%
      Device(<<97>>, FALSE, [wall |-> StartTime - 60, utcoffset |-> 0],
             2, 96, 4, "S4"),
      \* visible, online, reports no storage at all
      Device(<<66>>, FALSE, [wall |-> StartTime - 60, utcoffset |-> 0],
             0, 0, 0, "S5") }

Backup(status, errorMessage) ==
    [backup |-> [status |-> status, errorMessage |-> errorMessage]]

Agent(name, archived, paused, lastSnapshot, backups, latestOffsite, type, lastScreenshotAttempt, lastScreenshotAttemptStatus) ==
    [name |-> name, isArchived |-> archived, isPaused |-> paused,
     lastSnapshot |-> lastSnapshot, backups |-> backups,
     latestOffsite |-> latestOffsite, type |-> type,
     lastScreenshotAttempt |-> lastScreenshotAttempt,
     lastScreenshotAttemptStatus |-> lastScreenshotAttemptStatus]

\* Assets a device of the script's run may report; both are named "x".
AgentCatalog ==
    { \* archived, and every rule would fire
      Agent(<<120>>, TRUE, FALSE, StartTime - LAST_BACKUP_THRESHOLD - 1,
            << >>, None, "agent", None, "false"),
      \* on every threshold: findings only once the clock advances
      Agent(<<120>>, FALSE, FALSE, StartTime - LAST_BACKUP_THRESHOLD,
            << Backup("failed", "timeout"), Backup("success", "") >>,
            Some(StartTime - LAST_OFFSITE_THRESHOLD), "agent",
            Some(StartTime - LAST_SCREENSHOT_THRESHOLD), "true") }

\* Assets the agent checks are applied to on their own
AgentInputs ==
    { Agent(<<120>>, archived, paused, StartTime - LAST_BACKUP_THRESHOLD + d,
            backups, offsite, type, shot, status) :
        archived \in BOOLEAN, paused \in BOOLEAN, d \in {-1, 0, 1},
        backups \in SeqsUpTo({ Backup("success", ""),
                               Backup("failed", "timeout") }, MaxBackups),
        offsite \in { None, Some(0), Some(StartTime - LAST_OFFSITE_THRESHOLD),
                      Some(StartTime - LAST_OFFSITE_THRESHOLD - 1) },
        type \in { "agent", "share" },
        shot \in { None, Some(StartTime - LAST_SCREENSHOT_THRESHOLD),
                   Some(StartTime - LAST_SCREENSHOT_THRESHOLD - 1) },
        status \in { "true", "false", "null" } }

\* Devices getDevices lists on its own: one of each name
ListCatalog == { d \in DeviceCatalog : d.serialNumber \in {"S3", "S4", "S5"} }

\* What the server answers getDevices on its own: the items of every page
\* and the totalPages it reports
ListInputs ==
    [items : [1..MaxPages -> SeqsUpTo(ListCatalog, MaxItems)],
     totalPages : 0..MaxPages]

\* Storage sizes the storage check is applied to on its own
StorageInputs ==
    { Storage(used, available) :
        used \in 0..MaxStorage, available \in 0..MaxStorage }

\* Seconds display_time is applied to on its own: of every unit none, a
\* few, or the most that fits below the next unit
UnitCounts(k) == (0..MaxUnits) \cup { << 11, 6, 23, 59, 59 >>[k] }

TimeInputs ==
    { c1 * intervals[1].count + c2 * intervals[2].count
        + c3 * intervals[3].count + c4 * intervals[4].count
        + c5 * intervals[5].count :
        c1 \in UnitCounts(1), c2 \in UnitCounts(2), c3 \in UnitCounts(3),
        c4 \in UnitCounts(4), c5 \in UnitCounts(5) }

\* No response held
NoResponse == [none |-> TRUE]

\* The error payload of the API
ErrorEnvelopes == { [code |-> 401, message |-> "Unauthorized"] }

\* A page of the device listing, the portal holding room more devices
PageResponses(room) ==
    [items : SeqsUpTo(DeviceCatalog, room),
     pagination : [totalPages : 0..MaxPages]]

\* Any JSON object without 'code' answers the probe; its content is unused.
ProbeResponses ==
    { [items |-> << >>, pagination |-> [totalPages |-> 0]] }

\* getAssetDetails: a JSON array of assets, or the error payload
AssetResponses ==
    { [json |-> "array", value |-> v] : v \in SeqsUpTo(AgentCatalog, MaxAgents) }

AssetErrors == { [json |-> "object", value |-> e] : e \in ErrorEnvelopes }

Url(endpoint, pageno, serial) ==
    [endpoint |-> endpoint, page |-> pageno, serialNumber |-> serial]

\* Seconds the clock may advance before it is read
Ticks == { t \in 0..1 : clock + t - StartTime <= MaxElapsed }

(***************************************************************************)
(* printErrors, lines 80-86.                                               *)
(***************************************************************************)
DeviceHeader(device_name) == Line("device", device_name, 0, << >>, "")
Newline == Line("newline", << >>, 0, << >>, "")

printErrors_stdout(errs, device_name) ==
    stdout \o << DeviceHeader(device_name) >> \o errs

\* Seeded fault: the separator after the block is left out
printErrors_MSG_BODY_open(errs, device_name) ==
    MSG_BODY \o << DeviceHeader(device_name) >> \o errs

printErrors_MSG_BODY(errs, device_name) ==
    MSG_BODY \o << DeviceHeader(device_name) >> \o errs \o << Newline >>

(***************************************************************************)
(* The script.                                                             *)
(***************************************************************************)
Init ==
    /\ pc = "args"
    /\ argc \in 1..3
    /\ SEND_EMAIL \in BOOLEAN
    /\ clock = StartTime
    /\ net = << >>
    /\ r = NoResponse
    /\ sessionOpen = FALSE
    /\ stdout = << >>
    /\ exc = ""
    /\ exitStatus = -1
    /\ acc = << >>
    /\ totalPages = 0
    /\ page = 0
    /\ devices = << >>
    /\ MSG_BODY = << >>
    /\ results_data = << >>
    /\ i = 0
    /\ errors = << >>
    /\ now = StartTime
    /\ assetDetails = [json |-> "array", value |-> << >>]
    /\ j = 0
    /\ emails = << >>
    /\ arg = << >>
    /\ ret = << >>

\* sys.exit(status), or an uncaught exception: traceback on stderr, status 1
Exit(status, exception) ==
    /\ pc' = "exit"
    /\ exitStatus' = status
    /\ exc' = exception

\* lines 9-12
CheckArgs ==
    /\ pc = "args"
    /\ IF argc < 3
       THEN /\ stdout' = << Line("usage", << >>, 0, << >>, "ERROR"),
                            Line("usage", << >>, 0, << >>, "Usage") >>
            /\ Exit(1, "")
       ELSE /\ pc' = "probe"
            /\ UNCHANGED << stdout, exc, exitStatus >>
    /\ UNCHANGED << r, argc, SEND_EMAIL, clock, net, sessionOpen, acc, totalPages,
                    page, devices, MSG_BODY, results_data, i, errors, now,
                    assetDetails, j, emails, arg, ret >>

\* Datto.__init__, lines 35-45
Probe_on(resp) ==
        /\ net' = Append(net, Url("device", 0, ""))
        /\ IF "code" \in DOMAIN resp
           THEN /\ r' = resp
                /\ stdout' = Append(stdout,
                                Line("critical", << >>, 0, << >>, resp.message))
                /\ Exit(1, "")
           ELSE /\ r' = NoResponse          \* __init__ returns
                /\ pc' = "getDevices"
                /\ UNCHANGED << stdout, exc, exitStatus >>

Probe ==
    /\ pc = "probe"
    /\ \/ \E resp \in ProbeResponses : Probe_on(resp)
       \/ \E resp \in ErrorEnvelopes : Probe_on(resp)
    /\ sessionOpen' = TRUE
    /\ UNCHANGED << argc, SEND_EMAIL, clock, acc, totalPages, page, devices,
                    MSG_BODY, results_data, i, errors, now, assetDetails, j,
                    emails, arg, ret >>

\* getDevices returns, lines 68-69: its locals are gone, and the main loop
\* starts at the first device
getDevices_return(all) ==
    /\ devices' = sorted(all)
    /\ r' = NoResponse
    /\ acc' = << >>
    /\ totalPages' = 0
    /\ page' = 0
    /\ i' = 1
    /\ pc' = "loop"

\* Datto.getDevices, lines 57-64, and 68-69 when there is a single page
GetDevicesFirst_on(resp) ==
        /\ net' = Append(net, Url("device", 1, ""))
        /\ IF "items" \notin DOMAIN resp            \* r['items']: KeyError
           THEN /\ r' = resp
                /\ Exit(1, "KeyError")
                /\ UNCHANGED << acc, totalPages, page, devices, i >>
           ELSE /\ IF resp.pagination.totalPages > 1
                   THEN /\ r' = resp
                        /\ acc' = resp.items
                        /\ totalPages' = resp.pagination.totalPages
                        /\ page' = 2
                        /\ pc' = "pages"
                        /\ UNCHANGED << devices, i >>
                   ELSE getDevices_return(resp.items)
                /\ UNCHANGED << exc, exitStatus >>

\* pages: the listing pages the server may answer with; failures: its error
\* payloads
GetDevicesFirst(pages, failures) ==
    /\ pc = "getDevices"
    /\ \/ \E resp \in pages : GetDevicesFirst_on(resp)
       \/ \E resp \in failures : GetDevicesFirst_on(resp)
    /\ UNCHANGED << argc, SEND_EMAIL, clock, sessionOpen, stdout, MSG_BODY,
                    results_data, errors, now, assetDetails, j, emails, arg,
                    ret >>

\* Datto.getDevices, one turn of the loop of lines 65-67, and 68-69 after
\* the last page
GetDevicesPage_on(resp) ==
        /\ net' = Append(net, Url("device", page, ""))
        /\ IF "items" \notin DOMAIN resp            \* r['items']: KeyError
           THEN /\ r' = resp
                /\ Exit(1, "KeyError")
                /\ UNCHANGED << acc, totalPages, page, devices, i >>
           ELSE /\ IF page < totalPages
                   THEN /\ r' = resp
                        /\ acc' = acc \o resp.items
                        /\ page' = page + 1
                        /\ UNCHANGED << pc, totalPages, devices, i >>
                   ELSE getDevices_return(acc \o resp.items)
                /\ UNCHANGED << exc, exitStatus >>

GetDevicesPage(pages, failures) ==
    /\ pc = "pages"
    /\ \/ \E resp \in pages : GetDevicesPage_on(resp)
       \/ \E resp \in failures : GetDevicesPage_on(resp)
    /\ UNCHANGED << argc, SEND_EMAIL, clock, sessionOpen, stdout,
                    MSG_BODY, results_data, errors, now, assetDetails, j,
                    emails, arg, ret >>

\* results_data['devices'][name]['errors'].append(...) for each of lines
results_errors_extend(rd, name, lines) ==
    DictSet(rd, name, [errors |-> DictGet(rd, name).errors \o lines,
                       assets |-> DictGet(rd, name).assets])

\* lines 194-242 for results_data: the asset's list is set to [] and every
\* finding of the asset is appended to it
results_asset_record(rd, name, asset_name, lines) ==
    DictSet(rd, name,
            [errors |-> DictGet(rd, name).errors,
             assets |-> DictSet(DictGet(rd, name).assets, asset_name,
                                << >> \o lines)])

\* Datto.getAssetDetails, line 78, answered with resp
getAssetDetails(serialNumber, resp) ==
    /\ net' = Append(net, Url("asset", 0, serialNumber))
    /\ assetDetails' = resp

\* One turn of the main loop up to the agent loop, lines 137-188
DeviceStep ==
    /\ pc = "loop"
    /\ i <= Len(devices)
    /\ LET device == devices[i] IN
       IF device.hidden
       THEN /\ i' = i + 1
            /\ UNCHANGED << pc, clock, net, stdout, exc, exitStatus, MSG_BODY,
                            results_data, errors, now, assetDetails, j >>
       ELSE \E t \in Ticks :
            LET at      == clock + t
                fresh   == DictSet(results_data, device.name,
                                   [errors |-> << >>, assets |-> << >>])
                tickets == TicketCheck(device)
                rd1     == results_errors_extend(fresh, device.name, tickets)
            IN
            /\ clock' = at
            /\ now' = at
            /\ IF Offline(device, at)
               THEN LET errs == tickets \o << CheckinLine(device, at) >> IN
                    /\ errors' = errs
                    /\ results_data' = results_errors_extend(rd1, device.name,
                                           << CheckinLine(device, at) >>)
                    /\ stdout' = printErrors_stdout(errs, device.name)
                    /\ MSG_BODY' = printErrors_MSG_BODY(errs, device.name)
                    /\ i' = i + 1
                    /\ UNCHANGED << pc, net, exc, exitStatus, assetDetails, j >>
               ELSE IF StorageRaises(device)
               THEN /\ errors' = tickets
                    /\ results_data' = rd1
                    /\ Exit(1, "ZeroDivisionError")
                    /\ UNCHANGED << net, stdout, MSG_BODY, i, assetDetails, j >>
               ELSE /\ errors' = tickets \o StorageCheck(device)
                    /\ results_data' = results_errors_extend(rd1, device.name,
                                           StorageCheck(device))
                    /\ \/ \E resp \in AssetResponses :
                              getAssetDetails(device.serialNumber, resp)
                       \/ \E resp \in AssetErrors :
                              getAssetDetails(device.serialNumber, resp)
                    /\ j' = 1
                    /\ pc' = "agents"
                    /\ UNCHANGED << stdout, exc, exitStatus, MSG_BODY, i >>
    /\ UNCHANGED << r, argc, SEND_EMAIL, sessionOpen, acc, totalPages, page,
                    devices, emails, arg, ret >>

\* One turn of the agent loop, lines 190-242
AgentStep ==
    /\ pc = "agents"
    /\ IF assetDetails.json = "object"
       THEN \* the loop runs over the keys of the payload: a str is indexed
            \* with 'isArchived', TypeError
            /\ Exit(1, "TypeError")
            /\ UNCHANGED << clock, results_data, errors, now, j >>
       ELSE /\ j <= Len(assetDetails.value)
            /\ LET agent == assetDetails.value[j] IN
               IF Skipped(agent)
               THEN /\ j' = j + 1
                    /\ UNCHANGED << clock, results_data, errors, now >>
               ELSE \E t \in Ticks :
                    LET at == clock + t IN
                    /\ clock' = at
                    /\ now' = at
                    /\ errors' = errors \o AgentChecks(agent, at)
                    /\ results_data' =
                         results_asset_record(results_data, devices[i].name,
                                              agent.name, AgentChecks(agent, at))
                    /\ j' = j + 1
            /\ UNCHANGED << pc, exc, exitStatus >>
    /\ UNCHANGED << r, argc, SEND_EMAIL, net, sessionOpen, stdout, acc, totalPages,
                    page, devices, MSG_BODY, i, assetDetails, emails, arg, ret >>

\* Seeded fault: the device is reported whether or not it has findings
has_errors_always(errs) == TRUE

\* line 243: 'if errors'
has_errors(errs) == errs # << >>

\* The agent loop is over, lines 243-245
EndDevice ==
    /\ pc = "agents"
    /\ assetDetails.json = "array"
    /\ j > Len(assetDetails.value)
    /\ IF has_errors(errors)
       THEN /\ stdout' = printErrors_stdout(errors, devices[i].name)
            /\ MSG_BODY' = printErrors_MSG_BODY(errors, devices[i].name)
       ELSE UNCHANGED << stdout, MSG_BODY >>
    /\ i' = i + 1
    /\ pc' = "loop"
    /\ UNCHANGED << r, argc, SEND_EMAIL, clock, net, sessionOpen, exc, exitStatus,
                    acc, totalPages, page, devices, results_data, errors, now,
                    assetDetails, j, emails, arg, ret >>

\* email_report, lines 111-128: the body sent, '\n'.join(MSG_BODY)
email_report_body == MSG_BODY

\* The main loop is over, lines 247-250
EndOfRun ==
    /\ pc = "loop"
    /\ i > Len(devices)
    /\ sessionOpen' = FALSE
    /\ IF SEND_EMAIL
       THEN \E sent \in BOOLEAN :
            IF sent
            THEN /\ emails' = Append(emails, email_report_body)
                 /\ Exit(0, "")
            ELSE \* smtplib raises: the relay is unreachable or refuses
                 /\ Exit(1, "SMTPException")
                 /\ UNCHANGED emails
       ELSE /\ Exit(0, "")
            /\ UNCHANGED emails
    /\ UNCHANGED << r, argc, SEND_EMAIL, clock, net, stdout, acc, totalPages, page,
                    devices, MSG_BODY, results_data, i, errors, now,
                    assetDetails, j, arg, ret >>

Next ==
    \/ CheckArgs
    \/ Probe
    \/ GetDevicesFirst(PageResponses(MaxDevices), ErrorEnvelopes)
    \/ GetDevicesPage(PageResponses(MaxDevices - Len(acc)), ErrorEnvelopes)
    \/ DeviceStep
    \/ AgentStep
    \/ EndDevice
    \/ EndOfRun

Spec == Init /\ [][Next]_vars

(***************************************************************************)
(* The checks applied on their own.                                        *)
(***************************************************************************)
Idle ==
    /\ argc = 3
    /\ SEND_EMAIL = FALSE
    /\ clock = StartTime
    /\ net = << >>
    /\ r = NoResponse
    /\ sessionOpen = FALSE
    /\ stdout = << >>
    /\ exc = ""
    /\ exitStatus = -1
    /\ acc = << >>
    /\ totalPages = 0
    /\ page = 0
    /\ devices = << >>
    /\ MSG_BODY = << >>
    /\ results_data = << >>
    /\ i = 0
    /\ errors = << >>
    /\ now = StartTime
    /\ assetDetails = [json |-> "array", value |-> << >>]
    /\ j = 0
    /\ emails = << >>
    /\ ret = << >>

Returns(value) ==
    /\ ret' = value
    /\ pc' = "return"
    /\ UNCHANGED << argc, SEND_EMAIL, clock, net, r, sessionOpen, stdout, exc,
                    exitStatus, acc, totalPages, page, devices, MSG_BODY,
                    results_data, i, errors, now, assetDetails, j, emails,
                    arg >>

\* display_time(arg)
InitTime == pc = "display_time" /\ arg \in TimeInputs /\ Idle

CallDisplayTime == pc = "display_time" /\ Returns(display_time(arg))

SpecTime == InitTime /\ [][CallDisplayTime]_vars

\* lines 172-181 on the device arg
InitStorage == pc = "storage" /\ arg \in StorageInputs /\ Idle

CallStorageCheck ==
    /\ pc = "storage"
    /\ Returns(IF StorageRaises(arg)
               THEN [raised |-> TRUE, findings |-> << >>]
               ELSE [raised |-> FALSE, findings |-> StorageCheck(arg)])

SpecStorage == InitStorage /\ [][CallStorageCheck]_vars

\* one turn of the agent loop, lines 191-242, on the agent arg at StartTime
InitAgent == pc = "agent" /\ arg \in AgentInputs /\ Idle

CallAgentChecks ==
    /\ pc = "agent"
    /\ Returns(IF Skipped(arg)
               THEN [recorded |-> FALSE, findings |-> << >>]
               ELSE [recorded |-> TRUE, findings |-> AgentChecks(arg, now)])

SpecAgent == InitAgent /\ [][CallAgentChecks]_vars

\* getDevices() on a server that answers as arg says
InitList ==
    /\ pc = "getDevices"
    /\ arg \in ListInputs
    /\ argc = 3
    /\ SEND_EMAIL = FALSE
    /\ clock = StartTime
    /\ net = << Url("device", 0, "") >>
    /\ r = NoResponse
    /\ sessionOpen = TRUE
    /\ stdout = << >>
    /\ exc = ""
    /\ exitStatus = -1
    /\ acc = << >>
    /\ totalPages = 0
    /\ page = 0
    /\ devices = << >>
    /\ MSG_BODY = << >>
    /\ results_data = << >>
    /\ i = 0
    /\ errors = << >>
    /\ now = StartTime
    /\ assetDetails = [json |-> "array", value |-> << >>]
    /\ j = 0
    /\ emails = << >>
    /\ ret = << >>

Served(p) ==
    [items |-> arg.items[p], pagination |-> [totalPages |-> arg.totalPages]]

ServedFirst == { Served(1) }
ServedNext == { Served(page) }

NextList ==
    \/ GetDevicesFirst(ServedFirst, {})
    \/ GetDevicesPage(ServedNext, {})

SpecList == InitList /\ [][NextList]_vars

(***************************************************************************)
(* Properties.                                                             *)
(***************************************************************************)
\* How many lines of a sequence are of a kind
CountKind(lines, kind) ==
    Cardinality({ k \in DOMAIN lines : lines[k].kind = kind })

\* How often x occurs in a sequence
Occurrences(seq, x) == Cardinality({ k \in DOMAIN seq : seq[k] = x })

\* The rendering C9 asks for: the units of the decomposition of s into
\* weeks, days, hours, minutes and seconds, the first two that are not
\* zero, each with its count and in the singular when the count is 1.
UnitPlural ==
    << <<"w","e","e","k","s">>, <<"d","a","y","s">>, <<"h","o","u","r","s">>,
       <<"m","i","n","u","t","e","s">>, <<"s","e","c","o","n","d","s">> >>

UnitSingular ==
    << <<"w","e","e","k">>, <<"d","a","y">>, <<"h","o","u","r">>,
       <<"m","i","n","u","t","e">>, <<"s","e","c","o","n","d">> >>

Decomposition(s) ==
    << s \div 604800, (s % 604800) \div 86400, (s % 86400) \div 3600,
       (s % 3600) \div 60, s % 60 >>

TwoLargestUnits(s) ==
    LET c       == Decomposition(s)
        nonzero == SelectSeq(<<1, 2, 3, 4, 5>>, LAMBDA k : c[k] # 0)
        shown   == SubSeq(nonzero, 1, IF Len(nonzero) < 2 THEN Len(nonzero) ELSE 2)
        part(k) == str(c[k]) \o <<" ">>
                     \o (IF c[k] = 1 THEN UnitSingular[k] ELSE UnitPlural[k])
    IN  IF shown = << >> THEN << >>
        ELSE IF Len(shown) = 1 THEN part(shown[1])
        ELSE part(shown[1]) \o <<",", " ">> \o part(shown[2])

\* C9: display_time renders every non-negative whole number of seconds as
\* its two largest non-zero units (fewer if fewer are non-zero), in
\* decreasing order, each with its exact count, singular exactly when the
\* count is 1; 90061 seconds is "1 day, 1 hour".
C9_DisplayTimeTwoLargestUnits ==
    pc = "return" =>
        /\ ret = TwoLargestUnits(arg)
        /\ arg = 90061 =>
             ret = <<"1"," ","d","a","y",","," ","1"," ","h","o","u","r">>

\* An input with three non-zero units, the first counting 1 and the second
\* more, was rendered.
C9_Witness ==
    /\ pc = "return"
    /\ arg = 604800 + 2 * 3600 + 59
    /\ ret = <<"1"," ","w","e","e","k",","," ","2"," ","h","o","u","r","s">>

\* C7: for an evaluated asset whose last snapshot is more than 12 hours
\* old, an empty backup history gives exactly the no-backups finding and no
\* failure finding; otherwise the failure finding is there exactly when the
\* most recent backup's status is not success.  Up to 12 hours neither
\* finding is produced.
C7_LastBackupFindings ==
    (pc = "return" /\ ret.recorded) =>
        LET none   == CountKind(ret.findings, "no_backups")
            failed == CountKind(ret.findings, "backup_failed")
        IN  IF now - arg.lastSnapshot > 12 * 60 * 60
            THEN IF Len(arg.backups) = 0
                 THEN none = 1 /\ failed = 0
                 ELSE /\ none = 0
                      /\ failed = IF arg.backups[1].backup.status = "success"
                                  THEN 0 ELSE 1
            ELSE none = 0 /\ failed = 0

\* An asset without backup history, its snapshot older than 12 hours, was
\* evaluated and got the no-backups finding.
C7_Witness ==
    /\ pc = "return"
    /\ ret.recorded
    /\ arg.backups = << >>
    /\ now - arg.lastSnapshot > 12 * 60 * 60
    /\ CountKind(ret.findings, "no_backups") = 1

PercentTwoDecimals(used, available) ==
    (2 * 10000 * used + (used + available)) \div (2 * (used + available))

\* C4: with used + available > 0 the local-storage finding is produced
\* exactly when used / (used + available) x 100, rounded to two decimals,
\* is greater than 95.
C4_StorageFindingIffAbove95 ==
    (pc = "return"
       /\ arg.localStorageUsed.size + arg.localStorageAvailable.size > 0) =>
        (CountKind(ret.findings, "storage") = 1
            <=> PercentTwoDecimals(arg.localStorageUsed.size,
                                   arg.localStorageAvailable.size) > 95 * 100)

\* C3: when the first response reports totalPages >= 1, getDevices requests
\* each of the pages 1..totalPages once, and returns a permutation of the
\* concatenation of their items, ordered non-decreasingly by upper-cased
\* name.
C3_GetDevicesAllPagesSorted ==
    (pc = "loop" /\ arg.totalPages >= 1) =>
        LET served == Concat([p \in 1..arg.totalPages |-> arg.items[p]])
        IN  /\ net = << Url("device", 0, "") >>
                       \o [p \in 1..arg.totalPages |-> Url("device", p, "")]
            /\ Len(devices) = Len(served)
            /\ \A d \in ListCatalog :
                 Occurrences(devices, d) = Occurrences(served, d)
            /\ \A k \in 1..(Len(devices) - 1) :
                 ~ StrLess(upper(devices[k + 1].name), upper(devices[k].name))

\* getDevices followed two pages and returned their items in another order
\* than they were served in.
C3_Witness ==
    /\ pc = "loop"
    /\ arg.totalPages = 2
    /\ arg.items[1] # << >>
    /\ arg.items[2] # << >>
    /\ devices # arg.items[1] \o arg.items[2]

\* The lines of a sequence that are not of the given kinds
Without(lines, kinds) == SelectSeq(lines, LAMBDA l : l.kind \notin kinds)

\* The names of the devices at the positions 1..n of the list that are not
\* hidden
VisibleNames(n) ==
    LET visible == SelectSeq([k \in 1..n |-> devices[k]], LAMBDA d : ~ d.hidden)
    IN  [k \in DOMAIN visible |-> visible[k].name]

\* The names on the device header lines
HeaderNames(lines) ==
    LET headers == SelectSeq(lines, LAMBDA l : l.kind = "device")
    IN  [k \in DOMAIN headers |-> headers[k].name]

\* a can be had from b by leaving elements out
RECURSIVE IsSubsequence(_, _)
IsSubsequence(a, b) ==
    IF a = << >> THEN TRUE
    ELSE IF b = << >> THEN FALSE
    ELSE IF a[1] = b[1] THEN IsSubsequence(Tail(a), Tail(b))
    ELSE IsSubsequence(a, Tail(b))

\* Every block of the buffer is a header, one finding or more, a separator
WholeBlocks(lines) ==
    /\ lines # << >> => lines[1].kind = "device" /\ lines[Len(lines)].kind = "newline"
    /\ \A k \in DOMAIN lines :
        /\ lines[k].kind = "device" =>
             k < Len(lines) /\ lines[k + 1].kind \notin {"device", "newline"}
        /\ (lines[k].kind = "newline" /\ k < Len(lines)) =>
             lines[k + 1].kind = "device"

\* C1: a visible device whose last check-in is 1200 seconds or more before
\* the sampled now gets exactly one critical check-in finding and nothing
\* of the storage or asset checks: no request for its assets is sent, its
\* assets entry is empty, and the loop moves on to the next device.  A
\* device that is offline from the start of the run never has its assets
\* requested.
C1_OfflineDeviceShortCircuits ==
    /\ [][ (/\ pc = "loop"
            /\ i <= Len(devices)
            /\ ~ devices[i].hidden
            /\ now' - (devices[i].lastSeenDate.wall
                         - devices[i].lastSeenDate.utcoffset) >= 1200)
           => LET new   == SubSeq(MSG_BODY', Len(MSG_BODY) + 1, Len(MSG_BODY'))
                  entry == DictGet(results_data', devices[i].name)
              IN  /\ CountKind(new, "checkin") = 1
                  /\ \A k \in DOMAIN new :
                       new[k].kind \in {"device", "tickets", "checkin", "newline"}
                  /\ CountKind(entry.errors, "checkin") = 1
                  /\ \A k \in DOMAIN entry.errors :
                       entry.errors[k].kind \in {"tickets", "checkin"}
                  /\ entry.assets = << >>
                  /\ net' = net
                  /\ pc' = "loop"
                  /\ i' = i + 1 ]_vars
    /\ [](\A k \in DOMAIN devices :
            (/\ ~ devices[k].hidden
             /\ StartTime - (devices[k].lastSeenDate.wall
                               - devices[k].lastSeenDate.utcoffset) >= 1200)
            => Url("asset", 0, devices[k].serialNumber) \notin Range(net))

\* An offline device with a ticket was reported with its two device-level
\* findings, and the loop went on to a device whose assets were requested.
C1_Witness ==
    /\ pc = "agents"
    /\ i = 2
    /\ ~ devices[1].hidden
    /\ StartTime - (devices[1].lastSeenDate.wall
                      - devices[1].lastSeenDate.utcoffset) >= 1200
    /\ CountKind(MSG_BODY, "checkin") = 1
    /\ CountKind(MSG_BODY, "tickets") = 1
    /\ DictGet(results_data, devices[1].name).assets = << >>
    /\ Len(net) = 3

\* C2: when the probe or a listing request is answered with the error
\* payload, the run prints the payload's message, ends with status 1 and
\* has evaluated no device.
C2_ApiErrorPrintedAndExit1 ==
    (pc = "exit" /\ "code" \in DOMAIN r) =>
        /\ exitStatus = 1
        /\ stdout = << Line("critical", << >>, 0, << >>, r.message) >>
        /\ i = 0
        /\ results_data = << >>
        /\ MSG_BODY = << >>

\* C5 as claimed: after a run over a hidden and a visible device in which
\* nothing was found, the buffer is empty and no email was sent.
C5_NoFindingsNoEmail ==
    (/\ pc = "exit"
     /\ exitStatus = 0
     /\ stdout = << >>
     /\ \E k \in DOMAIN devices : devices[k].hidden
     /\ \E k \in DOMAIN devices : ~ devices[k].hidden)
    => MSG_BODY = << >> /\ emails = << >>

\* C5 as amended: the buffer grows only by the block of a visible device
\* whose finding list is not empty, a hidden device changes neither buffer
\* nor structure nor output, and after a run in which nothing was found
\* the buffer is empty and the email, sent exactly when SEND_EMAIL is set,
\* has an empty body.
C5_NoFindingsEmptyBuffer ==
    /\ [][ MSG_BODY' # MSG_BODY
           => /\ i \in DOMAIN devices
              /\ ~ devices[i].hidden
              /\ errors' # << >>
              /\ MSG_BODY' = MSG_BODY
                   \o << Line("device", devices[i].name, 0, << >>, "") >>
                   \o errors' \o << Line("newline", << >>, 0, << >>, "") >> ]_vars
    /\ [][ (pc = "loop" /\ i <= Len(devices) /\ devices[i].hidden)
           => UNCHANGED << MSG_BODY, results_data, stdout, net, emails >> ]_vars
    /\ []((pc = "exit" /\ exitStatus = 0 /\ stdout = << >>)
          => /\ MSG_BODY = << >>
             /\ emails = IF SEND_EMAIL THEN << << >> >> ELSE << >>)

\* A run over a hidden and a visible device found nothing and mailed an
\* empty body.
C5_Witness ==
    /\ pc = "exit"
    /\ exitStatus = 0
    /\ SEND_EMAIL
    /\ \E k \in DOMAIN devices : devices[k].hidden
    /\ \E k \in DOMAIN devices : ~ devices[k].hidden
    /\ Len(net) >= 3
    /\ stdout = << >>
    /\ MSG_BODY = << >>
    /\ emails = << << >> >>

\* The run ended abnormally before or within the device pass
AbortedInPass == pc = "exit" /\ exitStatus # 0 /\ exc # "SMTPException"

\* C6 as claimed: when the run ends abnormally in the fetch-and-evaluate
\* pass, no device report line was printed or appended before.
C6_NoReportBeforeAbort ==
    AbortedInPass =>
        /\ MSG_BODY = << >>
        /\ \A k \in DOMAIN stdout : stdout[k].kind \in {"usage", "critical"}

\* C6 as amended: an abort at the argument check, the probe or the listing
\* leaves the buffer empty and at most the error itself printed; an abort
\* while the k-th device is evaluated leaves, printed and appended alike,
\* whole report blocks of devices before the k-th and nothing else.
C6_AbortKeepsEarlierReports ==
    AbortedInPass =>
        /\ Without(MSG_BODY, {"newline"}) = Without(stdout, {"usage", "critical"})
        /\ IF i = 0
           THEN /\ MSG_BODY = << >>
                /\ \/ stdout = << >> /\ exc = "KeyError"
                   \/ Len(stdout) = 1 /\ stdout[1].kind = "critical" /\ exc = ""
                   \/ Len(stdout) = 2 /\ stdout[1].kind = "usage"
                        /\ stdout[2].kind = "usage" /\ exc = ""
           ELSE /\ i \in DOMAIN devices
                /\ WholeBlocks(MSG_BODY)
                /\ Without(stdout, {"usage", "critical"}) = stdout
                /\ IsSubsequence(HeaderNames(MSG_BODY), VisibleNames(i - 1))

\* The second device aborted the run after the first had been reported.
C6_Witness ==
    /\ AbortedInPass
    /\ i = 2
    /\ MSG_BODY # << >>
    /\ HeaderNames(MSG_BODY) = << devices[1].name >>

\* The block C10 expects of the device at position k: its findings as
\* results_data holds them under its name, device level first
StructureFindings(k) ==
    LET entry == DictGet(results_data, devices[k].name)
    IN  entry.errors
          \o Concat([n \in DOMAIN entry.assets |-> entry.assets[n].value])

StructureBlock(k) ==
    IF devices[k].hidden \/ StructureFindings(k) = << >> THEN << >>
    ELSE << Line("device", devices[k].name, 0, << >>, "") >>
           \o StructureFindings(k) \o << Line("newline", << >>, 0, << >>, "") >>

\* C10: at the end of the device pass the buffer is, in device order, one
\* block per visible device whose findings in results_data are not empty,
\* made of exactly those findings.
C10_BufferMatchesStructure ==
    (pc \in {"loop", "exit"} /\ i = Len(devices) + 1) =>
        MSG_BODY = Concat([k \in DOMAIN devices |-> StructureBlock(k)])

====
